---- MODULE Spec2Model ----
(***************************************************************************)
(* Model of tools/render-test/slang-support.cpp: _translateStage,          *)
(* ShaderCompilerUtil::compileProgram, ShaderCompilerUtil::readSource and  *)
(* ShaderCompilerUtil::compileWithLayout.                                  *)
(*                                                                         *)
(* The adapter is single threaded; one call runs at a time.  A call is     *)
(* broken into the steps of the source (pc), each Slang API call is        *)
(* appended to the log `calls`, and everything the Slang compiler and the  *)
(* file system decide is a nondeterministic choice at the call that asks.  *)
(* The arguments of a call are const and independent of each other: the    *)
(* model draws each field when the code first reads it, so `options`,      *)
(* `input` and `request` hold the fields read so far.                      *)
(* Assertions are compiled in or out by the build (`build`).               *)
(***************************************************************************)
EXTENDS Naturals, Sequences, FiniteSets

(***************************************************************************)
(* Bounds of the model.                                                    *)
(***************************************************************************)
\* number of distinct addresses spCreateCompileRequest hands out
MaxHandles == 1
\* length of options.compileArgs / request.compileArgs
MaxCompileArgs == 1
\* length of each specialization-argument list produced by the layout parser
MaxSpecArgs == 1
\* length of request.entryPoints in a direct compileProgram call, and of the
\* entry point list the compiler discovers from [shader(...)] attributes
MaxEntryPoints == 2
\* length of the entry point lists packaged under SpecStage
MaxStageSeq == 2

(***************************************************************************)
(* Values of the Slang API and of the renderer.                            *)
(***************************************************************************)
SLANG_OK == "SLANG_OK"
SLANG_FAIL == "SLANG_FAIL"
SLANG_PASS_THROUGH_NONE == "SLANG_PASS_THROUGH_NONE"
NULL == "NULL"

\* input.passThrough
PassThroughModes == {SLANG_PASS_THROUGH_NONE, "SLANG_PASS_THROUGH_FXC"}

\* input.sourceLanguage; UNKNOWN is the value no case of the switch names
SourceLanguages ==
    {"SLANG_SOURCE_LANGUAGE_UNKNOWN", "SLANG_SOURCE_LANGUAGE_SLANG",
     "SLANG_SOURCE_LANGUAGE_HLSL", "SLANG_SOURCE_LANGUAGE_GLSL",
     "SLANG_SOURCE_LANGUAGE_C", "SLANG_SOURCE_LANGUAGE_CPP",
     "SLANG_SOURCE_LANGUAGE_CUDA"}

\* Options::ShaderProgramType
ShaderProgramTypes == {"Graphics", "Compute", "GraphicsCompute", "RayTracing"}

\* input.pipelineType
PipelineTypes == {"Graphics", "Compute", "RayTracing"}

\* Entry point name to use for vertex/fragment shader
vertexEntryPointName == "vertexMain"
fragmentEntryPointName == "fragmentMain"
computeEntryPointName == "computeMain"
rtEntryPointName == "raygenMain"

\* the stage tags the switch of _translateStage names
HandledStages ==
    {"SLANG_STAGE_VERTEX", "SLANG_STAGE_HULL", "SLANG_STAGE_DOMAIN",
     "SLANG_STAGE_GEOMETRY", "SLANG_STAGE_FRAGMENT", "SLANG_STAGE_COMPUTE",
     "SLANG_STAGE_RAY_GENERATION", "SLANG_STAGE_INTERSECTION",
     "SLANG_STAGE_ANY_HIT", "SLANG_STAGE_CLOSEST_HIT", "SLANG_STAGE_MISS",
     "SLANG_STAGE_CALLABLE"}

\* SlangStage values the switch does not name: SLANG_STAGE_NONE and a value
\* outside the enumeration
UnhandledStages == {"SLANG_STAGE_NONE", "SLANG_STAGE_OUT_OF_ENUM"}

SlangStages == HandledStages \cup UnhandledStages

(***************************************************************************)
(* _translateStage: the switch.  assertHit says that the default branch,   *)
(* which holds SLANG_ASSERT(!"unhandled case"), was taken; ret is what the *)
(* function returns when the assertion lets it continue.                   *)
(***************************************************************************)
\* faulty variant: the FRAGMENT case returns Vertex
translateStageFragmentAsVertex(slangStage) ==
    CASE slangStage = "SLANG_STAGE_VERTEX" -> [assertHit |-> FALSE, ret |-> "Vertex"]
      [] slangStage = "SLANG_STAGE_HULL" -> [assertHit |-> FALSE, ret |-> "Hull"]
      [] slangStage = "SLANG_STAGE_DOMAIN" -> [assertHit |-> FALSE, ret |-> "Domain"]
      [] slangStage = "SLANG_STAGE_GEOMETRY" -> [assertHit |-> FALSE, ret |-> "Geometry"]
      [] slangStage = "SLANG_STAGE_FRAGMENT" -> [assertHit |-> FALSE, ret |-> "Vertex"]
      [] slangStage = "SLANG_STAGE_COMPUTE" -> [assertHit |-> FALSE, ret |-> "Compute"]
      [] slangStage = "SLANG_STAGE_RAY_GENERATION" -> [assertHit |-> FALSE, ret |-> "RayGeneration"]
      [] slangStage = "SLANG_STAGE_INTERSECTION" -> [assertHit |-> FALSE, ret |-> "Intersection"]
      [] slangStage = "SLANG_STAGE_ANY_HIT" -> [assertHit |-> FALSE, ret |-> "AnyHit"]
      [] slangStage = "SLANG_STAGE_CLOSEST_HIT" -> [assertHit |-> FALSE, ret |-> "ClosestHit"]
      [] slangStage = "SLANG_STAGE_MISS" -> [assertHit |-> FALSE, ret |-> "Miss"]
      [] slangStage = "SLANG_STAGE_CALLABLE" -> [assertHit |-> FALSE, ret |-> "Callable"]
      [] OTHER -> [assertHit |-> TRUE, ret |-> "Unknown"]

_translateStage(slangStage) ==
    CASE slangStage = "SLANG_STAGE_VERTEX" -> [assertHit |-> FALSE, ret |-> "Vertex"]
      [] slangStage = "SLANG_STAGE_HULL" -> [assertHit |-> FALSE, ret |-> "Hull"]
      [] slangStage = "SLANG_STAGE_DOMAIN" -> [assertHit |-> FALSE, ret |-> "Domain"]
      [] slangStage = "SLANG_STAGE_GEOMETRY" -> [assertHit |-> FALSE, ret |-> "Geometry"]
      [] slangStage = "SLANG_STAGE_FRAGMENT" -> [assertHit |-> FALSE, ret |-> "Fragment"]
      [] slangStage = "SLANG_STAGE_COMPUTE" -> [assertHit |-> FALSE, ret |-> "Compute"]
      [] slangStage = "SLANG_STAGE_RAY_GENERATION" -> [assertHit |-> FALSE, ret |-> "RayGeneration"]
      [] slangStage = "SLANG_STAGE_INTERSECTION" -> [assertHit |-> FALSE, ret |-> "Intersection"]
      [] slangStage = "SLANG_STAGE_ANY_HIT" -> [assertHit |-> FALSE, ret |-> "AnyHit"]
      [] slangStage = "SLANG_STAGE_CLOSEST_HIT" -> [assertHit |-> FALSE, ret |-> "ClosestHit"]
      [] slangStage = "SLANG_STAGE_MISS" -> [assertHit |-> FALSE, ret |-> "Miss"]
      [] slangStage = "SLANG_STAGE_CALLABLE" -> [assertHit |-> FALSE, ret |-> "Callable"]
      [] OTHER -> [assertHit |-> TRUE, ret |-> "Unknown"]

(***************************************************************************)
(* The macros the switch on input.sourceLanguage defines, in call order.   *)
(* SLANG falls through into the HLSL case.  No case: the default branch.   *)
(***************************************************************************)
\* faulty variant: a break after the SLANG case, so the fall through is lost
langDefinesNoFallThrough(sourceLanguage) ==
    CASE sourceLanguage = "SLANG_SOURCE_LANGUAGE_GLSL" -> <<"__GLSL__">>
      [] sourceLanguage = "SLANG_SOURCE_LANGUAGE_SLANG" -> <<"__SLANG__">>
      [] sourceLanguage = "SLANG_SOURCE_LANGUAGE_HLSL" -> <<"__HLSL__">>
      [] sourceLanguage = "SLANG_SOURCE_LANGUAGE_C" -> <<"__C__">>
      [] sourceLanguage = "SLANG_SOURCE_LANGUAGE_CPP" -> <<"__CPP__">>
      [] sourceLanguage = "SLANG_SOURCE_LANGUAGE_CUDA" -> <<"__CUDA__">>
      [] OTHER -> <<>>

langDefines(sourceLanguage) ==
    CASE sourceLanguage = "SLANG_SOURCE_LANGUAGE_GLSL" -> <<"__GLSL__">>
      [] sourceLanguage = "SLANG_SOURCE_LANGUAGE_SLANG" -> <<"__SLANG__", "__HLSL__">>
      [] sourceLanguage = "SLANG_SOURCE_LANGUAGE_HLSL" -> <<"__HLSL__">>
      [] sourceLanguage = "SLANG_SOURCE_LANGUAGE_C" -> <<"__C__">>
      [] sourceLanguage = "SLANG_SOURCE_LANGUAGE_CPP" -> <<"__CPP__">>
      [] sourceLanguage = "SLANG_SOURCE_LANGUAGE_CUDA" -> <<"__CUDA__">>
      [] OTHER -> <<>>

\* the default branch of the switch: assert(!"unexpected")
langUnexpected(sourceLanguage) ==
    sourceLanguage \notin
        {"SLANG_SOURCE_LANGUAGE_GLSL", "SLANG_SOURCE_LANGUAGE_SLANG",
         "SLANG_SOURCE_LANGUAGE_HLSL", "SLANG_SOURCE_LANGUAGE_C",
         "SLANG_SOURCE_LANGUAGE_CPP", "SLANG_SOURCE_LANGUAGE_CUDA"}

(***************************************************************************)
(* compileWithLayout: the "default" entry points of a shader type.         *)
(***************************************************************************)
EntryPoint(n, s) == [name |-> n, slangStage |-> s]

\* faulty variant: the fragment entry point is added before the vertex entry point
defaultEntryPointsFragmentFirst(shaderType) ==
    IF shaderType = "Graphics" \/ shaderType = "GraphicsCompute"
    THEN <<EntryPoint(fragmentEntryPointName, "SLANG_STAGE_FRAGMENT"),
           EntryPoint(vertexEntryPointName, "SLANG_STAGE_VERTEX")>>
    ELSE IF shaderType = "RayTracing"
    THEN <<>>
    ELSE <<EntryPoint(computeEntryPointName, "SLANG_STAGE_COMPUTE")>>

defaultEntryPoints(shaderType) ==
    IF shaderType = "Graphics" \/ shaderType = "GraphicsCompute"
    THEN <<EntryPoint(vertexEntryPointName, "SLANG_STAGE_VERTEX"),
           EntryPoint(fragmentEntryPointName, "SLANG_STAGE_FRAGMENT")>>
    ELSE IF shaderType = "RayTracing"
    THEN <<>>
    ELSE <<EntryPoint(computeEntryPointName, "SLANG_STAGE_COMPUTE")>>

\* Default the amount of renderTargets based on shader type
defaultNumRenderTargets(shaderType) ==
    IF shaderType = "Compute" \/ shaderType = "RayTracing" THEN 0 ELSE 1

\* the prelude is prepended for the C and C++ source languages
needsPrelude(sourceLanguage) ==
    sourceLanguage = "SLANG_SOURCE_LANGUAGE_CPP" \/ sourceLanguage = "SLANG_SOURCE_LANGUAGE_C"

(***************************************************************************)
(* State.                                                                  *)
(***************************************************************************)
VARIABLES
    build,              \* "debug" or "release": are assertions compiled in
    pc,                 \* position of the running call; "idle" between calls
    callee,             \* the function the harness called last
    options,            \* const Options&, the fields read so far
    input,              \* const ShaderCompilerUtil::Input&, the fields read so far
    request,            \* const ShaderCompileRequest&, the fields read so far
    layout,             \* OutputAndLayout: sourcePath and layout
    out,                \* ShaderCompilerUtil::Output (OutputAndLayout::output)
    compiler,           \* slangRequest and what the Slang compiler holds for it
    calls,              \* the Slang API calls of the running call, in order
    ee,                 \* loop index
    res,                \* const SlangResult res = spCompile(slangRequest)
    actualEntryPoints,  \* List<ShaderCompileRequest::EntryPoint>
    kernelDescs,        \* List<ShaderProgram::KernelDesc>
    result,             \* what the last call returned
    stderr              \* what the last call wrote to stderr

vars ==
    <<build, pc, callee, options, input, request, layout, out, compiler, calls,
      ee, res, actualEntryPoints, kernelDescs, result, stderr>>

(***************************************************************************)
(* Arguments, read field by field.                                         *)
(***************************************************************************)
\* no field read yet
Unread == [f \in {} |-> TRUE]

Has(rec, f) == f \in DOMAIN rec

\* the values the code may find in field f: the one it read before, or any
Reads(rec, f, D) == IF Has(rec, f) THEN {rec[f]} ELSE D

Bind(rec, f, v) == [g \in DOMAIN rec \cup {f} |-> IF g = f THEN v ELSE rec[g]]

(***************************************************************************)
(* The build.  SLANG_ASSERT and assert are compiled in by a debug build    *)
(* and compiled out by a release build.                                    *)
(***************************************************************************)
Builds == {"debug", "release"}

slangAssertEnabled == build = "debug"

cAssertEnabled == build = "debug"

(***************************************************************************)
(* ShaderCompilerUtil::Output.                                             *)
(***************************************************************************)
\* Output::reset(): no kernels, no pipeline type, no request and no session
EmptyOutput ==
    [request |-> 0, session |-> NULL, pipelineType |-> "Unknown", kernels |-> <<>>]

\* Output::set(pipelineType, kernelDescs, kernelDescCount)
OutputSet(o, pipelineType, kernels) ==
    [o EXCEPT !.pipelineType = pipelineType, !.kernels = kernels]

(***************************************************************************)
(* The Slang compiler, as far as the adapter sees it.                      *)
(***************************************************************************)
\* a compile request just created: nothing defined, nothing added, not compiled
FreshRequest(handle) ==
    [handle |-> handle, defines |-> <<>>, entryPoints |-> <<>>, compiled |-> FALSE,
     program |-> <<>>]

\* the addresses spCreateCompileRequest may return; reset() destroyed the
\* request the output held, so an address may come back
RequestHandles == 1..MaxHandles

\* entry points callers name and the compiler discovers, beside the defaults
EntryPointPool ==
    {EntryPoint(rtEntryPointName, "SLANG_STAGE_RAY_GENERATION"),
     EntryPoint("main", "SLANG_STAGE_NONE")}

SeqsUpTo(S, n) == UNION {[1..k -> S] : k \in 0..n}

EntryPointLists == SeqsUpTo(EntryPointPool, MaxEntryPoints)

CompileArgLists == SeqsUpTo({"-arg"}, MaxCompileArgs)

SpecArgLists == SeqsUpTo({"Type"}, MaxSpecArgs)

\* no code: a null pointer
NullCode == [request |-> 0, index |-> 0, offset |-> "0"]

\* spGetEntryPointCode(slangRequest, index, &codeSize): the code of an entry
\* point of the compiled program and its size, null and 0 for any other index
spGetEntryPointCode(c, index) ==
    IF c.compiled /\ index < Len(c.program)
    THEN [code |-> [request |-> c.handle, index |-> index, offset |-> "0"],
          codeSize |-> "codeSize"]
    ELSE [code |-> NullCode, codeSize |-> "0"]

\* code + codeSize
PtrAdd(code, codeSize) == [code EXCEPT !.offset = IF codeSize = "0" THEN @ ELSE codeSize]

\* the entry points of a compiled program: the ones added; none added, the
\* ones the compiler finds in the source
Programs(c) ==
    IF c.entryPoints # <<>> THEN {c.entryPoints} ELSE EntryPointLists

\* the entry points the reflection of the compiled program reports, by index
reflectedEntryPoints(c) == c.program

(***************************************************************************)
(* Initial state: a fresh OutputAndLayout, no call made.                   *)
(***************************************************************************)
NoLayout == [sourcePath |-> "", numRenderTargets |-> 0]

Init ==
    /\ build \in Builds
    /\ pc = "idle"
    /\ callee = "none"
    /\ options = Unread
    /\ input = Unread
    /\ request = Unread
    /\ layout = NoLayout
    /\ out = EmptyOutput
    /\ compiler = FreshRequest(0)
    /\ calls = <<>>
    /\ ee = 0
    /\ res = SLANG_OK
    /\ actualEntryPoints = <<>>
    /\ kernelDescs = <<>>
    /\ result = "none"
    /\ stderr = <<>>

(***************************************************************************)
(* Entering and leaving a call.                                            *)
(***************************************************************************)
\* a call starts with nothing read, fresh locals and nothing written
Enter(name) ==
    /\ pc = "idle"
    /\ callee' = name
    /\ options' = Unread
    /\ input' = Unread
    /\ ee' = 0
    /\ res' = SLANG_OK
    /\ actualEntryPoints' = <<>>
    /\ kernelDescs' = <<>>
    /\ result' = "running"
    /\ stderr' = <<>>

\* return code;
Return(code) ==
    /\ pc' = "idle"
    /\ result' = code

\* an assertion the build compiles in fails: the process stops
Abort ==
    /\ pc' = "aborted"
    /\ result' = "ABORT"

\* SLANG_RETURN_ON_FAIL(x): if (SLANG_FAILED(x)) return x;
SLANG_FAILED(code) == code # SLANG_OK

Log(names) == calls' = calls \o names

Repeat(name, n) == [i \in 1..n |-> name]

(***************************************************************************)
(* compileProgram, first statements:                                       *)
(*   out.reset(); slangRequest = spCreateCompileRequest(session);          *)
(*   out.request = slangRequest; out.session = session;                    *)
(***************************************************************************)
\* faulty variant: the output is not reset
compileProgramBeginNoReset ==
    \E handle \in RequestHandles :
        /\ compiler' = FreshRequest(handle)
        /\ out' = [out EXCEPT !.request = handle, !.session = "session"]
        /\ calls' = <<"spCreateCompileRequest">>
        /\ pc' = "cp_compileArgs"

compileProgramBegin ==
    \E handle \in RequestHandles :
        /\ compiler' = FreshRequest(handle)
        /\ out' = [EmptyOutput EXCEPT !.request = handle, !.session = "session"]
        /\ calls' = <<"spCreateCompileRequest">>
        /\ pc' = "cp_compileArgs"

(***************************************************************************)
(* The harness calls compileWithLayout on its OutputAndLayout.             *)
(***************************************************************************)
Call_compileWithLayout ==
    /\ Enter("compileWithLayout")
    /\ request' = Unread
    /\ compiler' = FreshRequest(0)
    /\ calls' = <<>>
    /\ pc' = "cwl_readSource"
    /\ UNCHANGED <<build, layout, out>>

(***************************************************************************)
(* The harness calls compileProgram with a request of its own.             *)
(***************************************************************************)
Call_compileProgram ==
    /\ Enter("compileProgram")
    /\ request' = Unread
    /\ compileProgramBegin
    /\ UNCHANGED <<build, layout>>

(***************************************************************************)
(* readSource, as compileWithLayout calls it:                              *)
(*   SLANG_RETURN_ON_FAIL(readSource(sourcePath, sourceText));             *)
(* fopen decides whether options.sourcePath can be read.                   *)
(***************************************************************************)
\* faulty variant: the output is reset when the source cannot be read
readSourceResetsOutput ==
    /\ pc = "cwl_readSource"
    /\ \E readable \in BOOLEAN :
          /\ options' = Bind(options, "sourceReadable", readable)
          /\ IF ~readable
             THEN /\ stderr' = Append(stderr, "error: failed to open")
                  /\ out' = EmptyOutput
                  /\ Return(SLANG_FAIL)
             ELSE /\ pc' = "cwl_build"
                  /\ UNCHANGED <<out, stderr, result>>
    /\ UNCHANGED <<build, callee, input, request, layout, compiler, calls, ee, res,
                   actualEntryPoints, kernelDescs>>

readSource ==
    /\ pc = "cwl_readSource"
    /\ \E readable \in BOOLEAN :
          /\ options' = Bind(options, "sourceReadable", readable)
          /\ IF ~readable
             THEN /\ stderr' = Append(stderr, "error: failed to open")
                  /\ Return(SLANG_FAIL)
             ELSE /\ pc' = "cwl_build"
                  /\ UNCHANGED <<stderr, result>>
    /\ UNCHANGED <<build, callee, input, request, layout, out, compiler, calls, ee,
                   res, actualEntryPoints, kernelDescs>>

(***************************************************************************)
(* compileWithLayout after the source is read: the prelude, the layout,    *)
(* the ShaderCompileRequest, and the call of compileProgram, up to its     *)
(* first statements.                                                       *)
(***************************************************************************)
\* compileRequest.entryPoints
requestEntryPoints(dontAddDefaultEntryPoints, shaderType) ==
    IF ~dontAddDefaultEntryPoints THEN defaultEntryPoints(shaderType) ELSE <<>>

\* sourceText, with the prelude in front for C and C++
sourceText(sourceLanguage) ==
    IF needsPrelude(sourceLanguage) THEN <<"prelude", "source">> ELSE <<"source">>

compileWithLayout ==
    /\ pc = "cwl_build"
    /\ \E sourceLanguage \in SourceLanguages, shaderType \in ShaderProgramTypes,
          dontAdd \in BOOLEAN, compileArgs \in CompileArgLists,
          g \in SpecArgLists, e \in SpecArgLists :
          /\ input' = Bind(input, "sourceLanguage", sourceLanguage)
          /\ options' = Bind(Bind(Bind(options, "shaderType", shaderType),
                                  "dontAddDefaultEntryPoints", dontAdd),
                             "compileArgs", compileArgs)
          /\ layout' = [sourcePath |-> "sourcePath",
                        numRenderTargets |-> defaultNumRenderTargets(shaderType)]
          /\ request' = [compileArgs |-> compileArgs,
                         source |-> sourceText(sourceLanguage),
                         entryPoints |-> requestEntryPoints(dontAdd, shaderType),
                         globalSpecializationArgs |-> g,
                         entryPointSpecializationArgs |-> e]
    /\ compileProgramBegin
    /\ UNCHANGED <<build, callee, ee, res, actualEntryPoints, kernelDescs, result,
                   stderr>>

(***************************************************************************)
(* compileProgram.                                                         *)
(***************************************************************************)
\* Parse all the extra args
compileProgramCompileArgs ==
    /\ pc = "cp_compileArgs"
    /\ \E compileArgs \in Reads(request, "compileArgs", CompileArgLists) :
          /\ request' = Bind(request, "compileArgs", compileArgs)
          /\ IF Len(compileArgs) > 0
             THEN /\ Log(<<"spProcessCommandLineArguments(compileArgs)">>)
                  /\ \E r \in {SLANG_OK, SLANG_FAIL} :
                        IF SLANG_FAILED(r)
                        THEN Return(r)
                        ELSE pc' = "cp_target" /\ UNCHANGED result
             ELSE /\ pc' = "cp_target"
                  /\ UNCHANGED <<calls, result>>
    /\ UNCHANGED <<build, callee, options, input, layout, out, compiler, ee, res,
                   actualEntryPoints, kernelDescs, stderr>>

\* spSetCodeGenTarget(...); spSetTargetProfile(..., spFindProfile(...));
compileProgramTarget ==
    /\ pc = "cp_target"
    /\ Log(<<"spSetCodeGenTarget", "spFindProfile", "spSetTargetProfile">>)
    /\ pc' = "cp_define"
    /\ UNCHANGED <<build, callee, options, input, request, layout, out, compiler, ee,
                   res, actualEntryPoints, kernelDescs, result, stderr>>

\* switch (input.sourceLanguage): one spAddPreprocessorDefine(name, "1") per
\* macro; the default branch asserts
compileProgramDefine ==
    /\ pc = "cp_define"
    /\ \E sourceLanguage \in Reads(input, "sourceLanguage", SourceLanguages) :
          /\ input' = Bind(input, "sourceLanguage", sourceLanguage)
          /\ LET names == langDefines(sourceLanguage)
             IN  /\ compiler' = [compiler EXCEPT !.defines =
                                    @ \o [i \in 1..Len(names) |-> <<names[i], "1">>]]
                 /\ Log(Repeat("spAddPreprocessorDefine", Len(names)))
          /\ IF langUnexpected(sourceLanguage) /\ cAssertEnabled
             THEN Abort
             ELSE pc' = "cp_passThrough" /\ UNCHANGED result
    /\ UNCHANGED <<build, callee, options, request, layout, out, ee, res,
                   actualEntryPoints, kernelDescs, stderr>>

\* faulty variant: the test on input.passThrough is lost
passThroughCallsAlways(passThrough) == <<"spSetPassThrough">>

\* if (input.passThrough != SLANG_PASS_THROUGH_NONE) spSetPassThrough(...)
passThroughCalls(passThrough) ==
    IF passThrough # SLANG_PASS_THROUGH_NONE THEN <<"spSetPassThrough">> ELSE <<>>

compileProgramPassThrough ==
    /\ pc = "cp_passThrough"
    /\ \E passThrough \in Reads(input, "passThrough", PassThroughModes) :
          /\ input' = Bind(input, "passThrough", passThrough)
          /\ Log(passThroughCalls(passThrough))
    /\ pc' = "cp_xslangArgs"
    /\ UNCHANGED <<build, callee, options, request, layout, out, compiler, ee, res,
                   actualEntryPoints, kernelDescs, result, stderr>>

\* Process any additional command-line options specified for Slang using
\* the `-xslang <arg>` option to `render-test`.
compileProgramXslangArgs ==
    /\ pc = "cp_xslangArgs"
    /\ Log(<<"spProcessCommandLineArguments(input.args)">>)
    /\ \E r \in {SLANG_OK, SLANG_FAIL} :
          IF SLANG_FAILED(r)
          THEN Return(r)
          ELSE pc' = "cp_translationUnit" /\ UNCHANGED result
    /\ UNCHANGED <<build, callee, options, input, request, layout, out, compiler, ee,
                   res, actualEntryPoints, kernelDescs, stderr>>

\* spAddTranslationUnit, spAddTranslationUnitSourceString, and one
\* spSetTypeNameForGlobalExistentialTypeParam per global specialization arg;
\* the counts of the two loops that follow are read
compileProgramTranslationUnit ==
    /\ pc = "cp_translationUnit"
    /\ \E source \in Reads(request, "source", {<<"source">>}),
          g \in Reads(request, "globalSpecializationArgs", SpecArgLists),
          e \in Reads(request, "entryPointSpecializationArgs", SpecArgLists),
          entryPoints \in Reads(request, "entryPoints", EntryPointLists) :
          /\ request' = Bind(Bind(Bind(Bind(request, "source", source),
                                       "globalSpecializationArgs", g),
                                  "entryPointSpecializationArgs", e),
                             "entryPoints", entryPoints)
          /\ Log(<<"spAddTranslationUnit", "spAddTranslationUnitSourceString">>
                 \o Repeat("spSetTypeNameForGlobalExistentialTypeParam", Len(g)))
    /\ ee' = 0
    /\ pc' = "cp_entryPoints"
    /\ UNCHANGED <<build, callee, options, input, layout, out, compiler, res,
                   actualEntryPoints, kernelDescs, result, stderr>>

\* the calls of one turn of the loop over request.entryPoints
addEntryPointCalls(n) ==
    <<"spAddEntryPoint">> \o Repeat("spSetTypeNameForEntryPointExistentialTypeParam", n)

\* one turn of the loop over request.entryPoints: the assertion on
\* options.dontAddDefaultEntryPoints, spAddEntryPoint (which returns the index
\* of the entry point added), the assertion on that index, and one
\* spSetTypeNameForEntryPointExistentialTypeParam per specialization arg
compileProgramAddEntryPoint ==
    /\ pc = "cp_entryPoints"
    /\ ee < Len(request.entryPoints)
    /\ \E dontAdd \in Reads(options, "dontAddDefaultEntryPoints", BOOLEAN) :
          /\ options' = Bind(options, "dontAddDefaultEntryPoints", dontAdd)
          /\ IF dontAdd /\ slangAssertEnabled
             THEN /\ Abort
                  /\ UNCHANGED <<compiler, calls, ee>>
             ELSE LET entryPointIndex == Len(compiler.entryPoints)
                  IN  /\ compiler' = [compiler EXCEPT !.entryPoints =
                                         Append(@, request.entryPoints[ee + 1])]
                      /\ IF entryPointIndex # ee /\ slangAssertEnabled
                         THEN /\ Log(<<"spAddEntryPoint">>)
                              /\ Abort
                              /\ UNCHANGED ee
                         ELSE /\ Log(addEntryPointCalls(
                                         Len(request.entryPointSpecializationArgs)))
                              /\ ee' = ee + 1
                              /\ UNCHANGED <<pc, result>>
    /\ UNCHANGED <<build, callee, input, request, layout, out, res,
                   actualEntryPoints, kernelDescs, stderr>>

\* spSetLineDirectiveMode(slangRequest, SLANG_LINE_DIRECTIVE_MODE_NONE);
compileProgramLineDirective ==
    /\ pc = "cp_entryPoints"
    /\ ee >= Len(request.entryPoints)
    /\ Log(<<"spSetLineDirectiveMode">>)
    /\ pc' = "cp_compile"
    /\ UNCHANGED <<build, callee, options, input, request, layout, out, compiler, ee,
                   res, actualEntryPoints, kernelDescs, result, stderr>>

\* const SlangResult res = spCompile(slangRequest);
compileProgramCompile ==
    /\ pc = "cp_compile"
    /\ Log(<<"spCompile">>)
    /\ \E r \in {SLANG_OK, SLANG_FAIL} :
          /\ res' = r
          /\ IF SLANG_FAILED(r)
             THEN UNCHANGED compiler
             ELSE \E program \in Programs(compiler) :
                     compiler' = [compiler EXCEPT !.compiled = TRUE, !.program = program]
    /\ pc' = "cp_diagnostics"
    /\ UNCHANGED <<build, callee, options, input, request, layout, out, ee,
                   actualEntryPoints, kernelDescs, result, stderr>>

\* if (auto diagnostics = spGetDiagnosticOutput(slangRequest))
\*     fprintf(stderr, "%s", diagnostics);
\* SLANG_RETURN_ON_FAIL(res);
compileProgramDiagnostics ==
    /\ pc = "cp_diagnostics"
    /\ Log(<<"spGetDiagnosticOutput">>)
    /\ \E diagnostics \in {NULL, "diagnostics"} :
          stderr' = IF diagnostics # NULL THEN Append(stderr, diagnostics) ELSE stderr
    /\ IF SLANG_FAILED(res)
       THEN Return(res)
       ELSE pc' = "cp_resolve" /\ UNCHANGED result
    /\ UNCHANGED <<build, callee, options, input, request, layout, out, compiler, ee,
                   res, actualEntryPoints, kernelDescs>>

\* faulty variant: reflection is used whatever the pass-through mode
usesReflectionAlways(passThrough) == TRUE

\* if (input.passThrough == SLANG_PASS_THROUGH_NONE)
usesReflection(passThrough) == passThrough = SLANG_PASS_THROUGH_NONE

\* actualEntryPoints: from reflection, or request.entryPoints
compileProgramResolve ==
    /\ pc = "cp_resolve"
    /\ IF usesReflection(input.passThrough)
       THEN LET entryPointCount == Len(reflectedEntryPoints(compiler))
            IN  IF entryPointCount = 0 /\ slangAssertEnabled
                THEN /\ Log(<<"ProgramLayout::get", "getEntryPointCount">>)
                     /\ Abort
                     /\ UNCHANGED actualEntryPoints
                ELSE /\ Log(<<"ProgramLayout::get", "getEntryPointCount">>
                            \o Repeat("getEntryPointByIndex", entryPointCount))
                     /\ actualEntryPoints' = reflectedEntryPoints(compiler)
                     /\ pc' = "cp_package"
                     /\ UNCHANGED result
       ELSE /\ actualEntryPoints' = request.entryPoints
            /\ pc' = "cp_package"
            /\ UNCHANGED <<calls, result>>
    /\ ee' = 0
    /\ UNCHANGED <<build, callee, options, input, request, layout, out, compiler, res,
                   kernelDescs, stderr>>

\* ShaderProgram::KernelDesc
KernelDesc(stage, code, codeSize, name) ==
    [stage |-> stage, codeBegin |-> code, codeEnd |-> PtrAdd(code, codeSize),
     entryPointName |-> name]

\* faulty variant: the code of the next entry point is fetched
codeIndexOffByOne(i) == i + 1

\* spGetEntryPointCode(slangRequest, int(ee), &codeSize)
codeIndex(i) == i

\* one turn of the loop over actualEntryPoints
compileProgramPackageKernel ==
    /\ pc = "cp_package"
    /\ ee < Len(actualEntryPoints)
    /\ Log(<<"spGetEntryPointCode">>)
    /\ LET actualEntryPoint == actualEntryPoints[ee + 1]
           c == spGetEntryPointCode(compiler, codeIndex(ee))
           gfxStage == _translateStage(actualEntryPoint.slangStage)
       IN  IF gfxStage.assertHit /\ slangAssertEnabled
           THEN /\ Abort
                /\ UNCHANGED <<ee, kernelDescs>>
           ELSE /\ kernelDescs' = Append(kernelDescs,
                       KernelDesc(gfxStage.ret, c.code, c.codeSize, actualEntryPoint.name))
                /\ ee' = ee + 1
                /\ UNCHANGED <<pc, result>>
    /\ UNCHANGED <<build, callee, options, input, request, layout, out, compiler, res,
                   actualEntryPoints, stderr>>

\* out.set(input.pipelineType, kernelDescs.getBuffer(), kernelDescs.getCount());
\* return SLANG_OK;
compileProgramSet ==
    /\ pc = "cp_package"
    /\ ee >= Len(actualEntryPoints)
    /\ \E pipelineType \in Reads(input, "pipelineType", PipelineTypes) :
          /\ input' = Bind(input, "pipelineType", pipelineType)
          /\ out' = OutputSet(out, pipelineType, kernelDescs)
    /\ Return(SLANG_OK)
    /\ UNCHANGED <<build, callee, options, request, layout, compiler, calls, ee, res,
                   actualEntryPoints, kernelDescs, stderr>>

(***************************************************************************)
(* The adapter under its harness.                                          *)
(***************************************************************************)
Next ==
    \/ Call_compileWithLayout
    \/ Call_compileProgram
    \/ readSource
    \/ compileWithLayout
    \/ compileProgramCompileArgs
    \/ compileProgramTarget
    \/ compileProgramDefine
    \/ compileProgramPassThrough
    \/ compileProgramXslangArgs
    \/ compileProgramTranslationUnit
    \/ compileProgramAddEntryPoint
    \/ compileProgramLineDirective
    \/ compileProgramCompile
    \/ compileProgramDiagnostics
    \/ compileProgramResolve
    \/ compileProgramPackageKernel
    \/ compileProgramSet

Spec == Init /\ [][Next]_vars

(***************************************************************************)
(* The kernel packaging loop over every stage tag: compileProgram in       *)
(* pass-through mode, past a successful spCompile, with the entry points   *)
(* of the request drawn from all SlangStage values.                        *)
(***************************************************************************)
StageEntryPointLists ==
    SeqsUpTo({EntryPoint("main", s) : s \in SlangStages}, MaxStageSeq)

InitStage ==
    /\ build \in Builds
    /\ pc = "cp_package"
    /\ callee = "compileProgram"
    /\ options = Unread
    /\ input = Bind(Bind(Unread, "sourceLanguage", "SLANG_SOURCE_LANGUAGE_HLSL"),
                    "passThrough", "SLANG_PASS_THROUGH_FXC")
    /\ \E entryPoints \in StageEntryPointLists :
          /\ request = [compileArgs |-> <<>>, source |-> <<"source">>,
                        entryPoints |-> entryPoints,
                        globalSpecializationArgs |-> <<>>,
                        entryPointSpecializationArgs |-> <<>>]
          /\ compiler = [handle |-> 1, defines |-> << <<"__HLSL__", "1">> >>,
                         entryPoints |-> entryPoints, compiled |-> TRUE,
                         program |-> entryPoints]
          /\ calls = <<"spCreateCompileRequest", "spSetCodeGenTarget", "spFindProfile",
                       "spSetTargetProfile", "spAddPreprocessorDefine", "spSetPassThrough",
                       "spProcessCommandLineArguments(input.args)", "spAddTranslationUnit",
                       "spAddTranslationUnitSourceString">>
                      \o Repeat("spAddEntryPoint", Len(entryPoints))
                      \o <<"spSetLineDirectiveMode", "spCompile", "spGetDiagnosticOutput">>
          /\ actualEntryPoints = entryPoints
    /\ layout = NoLayout
    /\ out = [EmptyOutput EXCEPT !.request = 1, !.session = "session"]
    /\ ee = 0
    /\ res = SLANG_OK
    /\ kernelDescs = <<>>
    /\ result = "running"
    /\ stderr = <<>>

NextStage ==
    \/ compileProgramPackageKernel
    \/ compileProgramSet

SpecStage == InitStage /\ [][NextStage]_vars

(***************************************************************************)
(* Vocabulary of the properties.                                           *)
(***************************************************************************)
Range(f) == {f[i] : i \in DOMAIN f}

Count(f, x) == Cardinality({i \in DOMAIN f : f[i] = x})

\* the running or last call has entered compileProgram and created a request
RequestCreated == calls # <<>> /\ calls[1] = "spCreateCompileRequest"

\* the last call has returned a result code
Returned == pc = "idle" /\ result \in {SLANG_OK, SLANG_FAIL}

ReturnedFailure == Returned /\ SLANG_FAILED(result)

ReturnedSuccess == Returned /\ result = SLANG_OK

\* out.set has run: kernels and pipeline type are those of a compile
FullyPopulated(o) == o.pipelineType \in PipelineTypes

ReflectionCalls == {"ProgramLayout::get", "getEntryPointCount", "getEntryPointByIndex"}

PassThroughRequested ==
    Has(input, "passThrough") /\ input.passThrough # SLANG_PASS_THROUGH_NONE

NormalMode ==
    Has(input, "passThrough") /\ input.passThrough = SLANG_PASS_THROUGH_NONE

(***************************************************************************)
(* C1.  As claimed: whenever compileProgram returns a failure code, the    *)
(* Output is either fully populated or in the state out.reset() produces.  *)
(***************************************************************************)
C1_FailureLeavesResetOrPopulated ==
    (ReturnedFailure /\ RequestCreated) => (FullyPopulated(out) \/ out = EmptyOutput)

\* C1, amended: whenever compileProgram returns a failure code, the Output has
\* no kernels and the pipeline type of a reset Output, and holds the request
\* this call created and the session.
C1_FailureLeavesRequestWithoutKernels ==
    (ReturnedFailure /\ RequestCreated) =>
        /\ compiler.handle \in RequestHandles
        /\ out = [EmptyOutput EXCEPT !.request = compiler.handle, !.session = "session"]

\* spCompile failed: compileProgram returned its code with the request in out
C1_Witness ==
    /\ ReturnedFailure
    /\ RequestCreated
    /\ "spCompile" \in Range(calls)
    /\ out.kernels = <<>>
    /\ out.request # 0

(***************************************************************************)
(* C2.  As claimed: a compileWithLayout call whose source cannot be opened *)
(* returns failure, creates no compile request, and leaves the             *)
(* CompileOutput in its reset state, whatever its state before the call.   *)
(***************************************************************************)
SourceUnreadable == Has(options, "sourceReadable") /\ ~options.sourceReadable

C2_UnreadableSourceLeavesReset ==
    (pc = "idle" /\ callee = "compileWithLayout" /\ SourceUnreadable) =>
        (result = SLANG_FAIL /\ calls = <<>> /\ out = EmptyOutput)

\* C2, amended: a compileWithLayout call whose source cannot be opened returns
\* failure, creates no compile request, and leaves the CompileOutput exactly as
\* it was before the call (reset only if it was reset before).
C2_UnreadableSourceLeavesOutputUntouched ==
    [][(pc = "cwl_readSource" /\ Has(options', "sourceReadable")
            /\ ~options'.sourceReadable)
        => (pc' = "idle" /\ result' = SLANG_FAIL /\ calls' = <<>> /\ out' = out)]_vars

\* the source could not be opened in a call on an Output that held kernels
C2_Witness ==
    /\ pc = "idle"
    /\ callee = "compileWithLayout"
    /\ SourceUnreadable
    /\ result = SLANG_FAIL
    /\ out.kernels # <<>>

(***************************************************************************)
(* C3.  On every path by which compileProgram returns after the request    *)
(* was created, spGetDiagnosticOutput has been called (and its text        *)
(* forwarded) before the return.                                           *)
(***************************************************************************)
C3_DiagnosticsFetchedBeforeReturn ==
    (Returned /\ RequestCreated) => "spGetDiagnosticOutput" \in Range(calls)

(***************************************************************************)
(* C4.  In normal mode, whenever compileProgram returns success the        *)
(* resolved entry point list has at least one element (and so has the      *)
(* kernel list).  Stated for the six source languages the adapter knows.   *)
(***************************************************************************)
C4_NormalModeSuccessHasEntryPoint ==
    (ReturnedSuccess /\ NormalMode /\ ~langUnexpected(input.sourceLanguage)) =>
        (Len(actualEntryPoints) >= 1 /\ Len(out.kernels) >= 1)

(***************************************************************************)
(* C5.  When compileProgram returns success, the kernel list handed to     *)
(* out.set has one kernel per resolved entry point, in order: kernel i     *)
(* carries the name and the translated stage of resolved entry point i and *)
(* the bytecode range spGetEntryPointCode gives for index i, which is not  *)
(* null.                                                                   *)
(***************************************************************************)
C5_OneKernelPerResolvedEntryPoint ==
    ReturnedSuccess =>
        /\ Len(out.kernels) = Len(actualEntryPoints)
        /\ \A i \in 1..Len(actualEntryPoints) :
              LET kernel == out.kernels[i]
                  entryPoint == actualEntryPoints[i]
                  c == spGetEntryPointCode(compiler, i - 1)
              IN  /\ kernel.entryPointName = entryPoint.name
                  /\ kernel.stage = _translateStage(entryPoint.slangStage).ret
                  /\ kernel.codeBegin = c.code
                  /\ kernel.codeEnd = PtrAdd(c.code, c.codeSize)
                  /\ kernel.codeBegin # NullCode
                  /\ kernel.codeBegin.index = i - 1
                  /\ kernel.codeEnd # kernel.codeBegin

\* a successful compile of two entry points found by reflection
C5_Witness ==
    /\ ReturnedSuccess
    /\ NormalMode
    /\ Len(out.kernels) = 2
    /\ out.kernels[1].entryPointName # out.kernels[2].entryPointName

(***************************************************************************)
(* C6.  In pass-through mode no reflection query is made during the call,  *)
(* and once the entry points are resolved the resolved list is             *)
(* request.entryPoints, element for element.                               *)
(***************************************************************************)
C6_PassThroughKeepsDeclaredEntryPoints ==
    PassThroughRequested =>
        /\ Range(calls) \cap ReflectionCalls = {}
        /\ (pc = "cp_package" \/ ReturnedSuccess) =>
              actualEntryPoints = request.entryPoints

\* a successful pass-through compile of two declared entry points
C6_Witness ==
    /\ PassThroughRequested
    /\ ReturnedSuccess
    /\ Len(request.entryPoints) = 2
    /\ Len(out.kernels) = 2

(***************************************************************************)
(* C7.  The calls on the compile request come in this order: the caller's  *)
(* extra compile arguments, the code generation target and profile, the    *)
(* dialect macros, the pass-through mode (only if one is requested), the   *)
(* second argument processing; spCompile is called at most once, after all *)
(* of these and after the translation unit, the entry points, the          *)
(* specialization arguments and the line directive mode, and no call       *)
(* configures the request after it.                                        *)
(***************************************************************************)
\* the configuration step a call belongs to, in the order claimed; 6 for the
\* steps whose order among themselves is not claimed
ConfigStep(name) ==
    CASE name = "spCreateCompileRequest" -> 0
      [] name = "spProcessCommandLineArguments(compileArgs)" -> 1
      [] name \in {"spSetCodeGenTarget", "spFindProfile", "spSetTargetProfile"} -> 2
      [] name = "spAddPreprocessorDefine" -> 3
      [] name = "spSetPassThrough" -> 4
      [] name = "spProcessCommandLineArguments(input.args)" -> 5
      [] name \in {"spAddTranslationUnit", "spAddTranslationUnitSourceString",
                   "spSetTypeNameForGlobalExistentialTypeParam", "spAddEntryPoint",
                   "spSetTypeNameForEntryPointExistentialTypeParam",
                   "spSetLineDirectiveMode"} -> 6
      [] name = "spCompile" -> 7
      [] OTHER -> 8

C7_ConfigurationOrderThenOneCompile ==
    /\ \A i \in 1..(Len(calls) - 1) :
          ConfigStep(calls[i]) <= ConfigStep(calls[i + 1])
    /\ Count(calls, "spCompile") <= 1
    /\ "spSetPassThrough" \in Range(calls) => PassThroughRequested
    /\ "spCompile" \in Range(calls) =>
          /\ Count(calls, "spProcessCommandLineArguments(compileArgs)")
                = (IF Len(request.compileArgs) > 0 THEN 1 ELSE 0)
          /\ Count(calls, "spSetCodeGenTarget") = 1
          /\ Count(calls, "spSetTargetProfile") = 1
          /\ Count(calls, "spAddPreprocessorDefine")
                = Len(langDefines(input.sourceLanguage))
          /\ Count(calls, "spSetPassThrough") = (IF PassThroughRequested THEN 1 ELSE 0)
          /\ Count(calls, "spProcessCommandLineArguments(input.args)") = 1
          /\ Count(calls, "spAddTranslationUnit") = 1
          /\ Count(calls, "spAddTranslationUnitSourceString") = 1
          /\ Count(calls, "spSetTypeNameForGlobalExistentialTypeParam")
                = Len(request.globalSpecializationArgs)
          /\ Count(calls, "spAddEntryPoint") = Len(request.entryPoints)
          /\ Count(calls, "spSetTypeNameForEntryPointExistentialTypeParam")
                = Len(request.entryPoints) * Len(request.entryPointSpecializationArgs)
          /\ Count(calls, "spSetLineDirectiveMode") = 1

\* spCompile has run on a request configured with every optional step
C7_Witness ==
    /\ "spCompile" \in Range(calls)
    /\ "spProcessCommandLineArguments(compileArgs)" \in Range(calls)
    /\ "spSetPassThrough" \in Range(calls)
    /\ Count(calls, "spAddPreprocessorDefine") = 2
    /\ Count(calls, "spAddEntryPoint") = 2
    /\ "spSetTypeNameForGlobalExistentialTypeParam" \in Range(calls)
    /\ "spSetTypeNameForEntryPointExistentialTypeParam" \in Range(calls)

(***************************************************************************)
(* C8.  With default entry points enabled, the entry points                *)
(* compileWithLayout declares to the compiler, and the kernels of the      *)
(* output after a successful compile, are the defaults of the shader type, *)
(* in order: for Compute ("computeMain", Compute); for Graphics            *)
(* ("vertexMain", Vertex) then ("fragmentMain", Fragment).                 *)
(***************************************************************************)
C8_Declared(shaderType) ==
    IF shaderType = "Compute"
    THEN <<[name |-> "computeMain", slangStage |-> "SLANG_STAGE_COMPUTE"]>>
    ELSE <<[name |-> "vertexMain", slangStage |-> "SLANG_STAGE_VERTEX"],
           [name |-> "fragmentMain", slangStage |-> "SLANG_STAGE_FRAGMENT"]>>

C8_Kernels(shaderType) ==
    IF shaderType = "Compute"
    THEN <<[stage |-> "Compute", entryPointName |-> "computeMain"]>>
    ELSE <<[stage |-> "Vertex", entryPointName |-> "vertexMain"],
           [stage |-> "Fragment", entryPointName |-> "fragmentMain"]>>

C8_DefaultsEnabled ==
    /\ callee = "compileWithLayout"
    /\ Has(options, "dontAddDefaultEntryPoints")
    /\ ~options.dontAddDefaultEntryPoints
    /\ options.shaderType \in {"Compute", "Graphics"}

C8_DefaultEntryPointsDeclaredAndPackaged ==
    C8_DefaultsEnabled =>
        LET declared == C8_Declared(options.shaderType)
            added == compiler.entryPoints
        IN  /\ Len(added) <= Len(declared)
            /\ added = SubSeq(declared, 1, Len(added))
            /\ "spCompile" \in Range(calls) => added = declared
            /\ ReturnedSuccess =>
                  [i \in 1..Len(out.kernels) |->
                      [stage |-> out.kernels[i].stage,
                       entryPointName |-> out.kernels[i].entryPointName]]
                    = C8_Kernels(options.shaderType)

\* a successful Graphics compile in normal mode, the defaults enabled
C8_Witness ==
    /\ C8_DefaultsEnabled
    /\ options.shaderType = "Graphics"
    /\ NormalMode
    /\ ReturnedSuccess
    /\ Len(out.kernels) = 2

(***************************************************************************)
(* C9.  The macros compileProgram defines depend on input.sourceLanguage   *)
(* alone, each with value "1" and defined once: CPP {__CPP__}, SLANG       *)
(* {__SLANG__, __HLSL__}, HLSL {__HLSL__}, GLSL {__GLSL__}, C {__C__},     *)
(* CUDA {__CUDA__}.  Before the switch on the language runs (and so in a   *)
(* call that returns on its extra compile arguments) none is defined.      *)
(***************************************************************************)
C9_Macros(sourceLanguage) ==
    CASE sourceLanguage = "SLANG_SOURCE_LANGUAGE_CPP" -> {"__CPP__"}
      [] sourceLanguage = "SLANG_SOURCE_LANGUAGE_SLANG" -> {"__SLANG__", "__HLSL__"}
      [] sourceLanguage = "SLANG_SOURCE_LANGUAGE_HLSL" -> {"__HLSL__"}
      [] sourceLanguage = "SLANG_SOURCE_LANGUAGE_GLSL" -> {"__GLSL__"}
      [] sourceLanguage = "SLANG_SOURCE_LANGUAGE_C" -> {"__C__"}
      [] sourceLanguage = "SLANG_SOURCE_LANGUAGE_CUDA" -> {"__CUDA__"}

C9_Languages ==
    {"SLANG_SOURCE_LANGUAGE_CPP", "SLANG_SOURCE_LANGUAGE_SLANG",
     "SLANG_SOURCE_LANGUAGE_HLSL", "SLANG_SOURCE_LANGUAGE_GLSL",
     "SLANG_SOURCE_LANGUAGE_C", "SLANG_SOURCE_LANGUAGE_CUDA"}

\* the switch on input.sourceLanguage has run in this call
C9_SwitchDone ==
    /\ "spSetTargetProfile" \in Range(calls)
    /\ pc \notin {"cp_compileArgs", "cp_target", "cp_define"}

C9_MacrosFollowSourceLanguage ==
    (Has(input, "sourceLanguage") /\ input.sourceLanguage \in C9_Languages) =>
        LET defined == {d[1] : d \in Range(compiler.defines)}
        IN  /\ \A d \in Range(compiler.defines) : d[2] = "1"
            /\ Len(compiler.defines) = Cardinality(defined)
            /\ defined = (IF C9_SwitchDone
                          THEN C9_Macros(input.sourceLanguage)
                          ELSE {})

\* a pass-through compile of Slang source with extra arguments and declared
\* entry points has defined its two macros
C9_Witness ==
    /\ Has(input, "sourceLanguage")
    /\ input.sourceLanguage = "SLANG_SOURCE_LANGUAGE_SLANG"
    /\ PassThroughRequested
    /\ "spProcessCommandLineArguments(compileArgs)" \in Range(calls)
    /\ Len(compiler.entryPoints) = 2
    /\ compiler.defines = << <<"__SLANG__", "1">>, <<"__HLSL__", "1">> >>

(***************************************************************************)
(* C10.  _translateStage maps each of the twelve stage tags of its table   *)
(* to the renderer stage of the same meaning, no two of them to the same   *)
(* stage and none to Unknown.  For any other tag the assertion of the      *)
(* default branch is met: a build that compiles it in stops there, and     *)
(* Unknown is returned on that branch only.  Checked on the kernels the    *)
(* packaging loop builds (SpecStage).                                      *)
(***************************************************************************)
C10_SameMeaning ==
    {<<"SLANG_STAGE_VERTEX", "Vertex">>, <<"SLANG_STAGE_HULL", "Hull">>,
     <<"SLANG_STAGE_DOMAIN", "Domain">>, <<"SLANG_STAGE_GEOMETRY", "Geometry">>,
     <<"SLANG_STAGE_FRAGMENT", "Fragment">>, <<"SLANG_STAGE_COMPUTE", "Compute">>,
     <<"SLANG_STAGE_RAY_GENERATION", "RayGeneration">>,
     <<"SLANG_STAGE_INTERSECTION", "Intersection">>,
     <<"SLANG_STAGE_ANY_HIT", "AnyHit">>, <<"SLANG_STAGE_CLOSEST_HIT", "ClosestHit">>,
     <<"SLANG_STAGE_MISS", "Miss">>, <<"SLANG_STAGE_CALLABLE", "Callable">>}

C10_Table == {p[1] : p \in C10_SameMeaning}

C10_StageTranslation ==
    /\ \A i \in 1..Len(kernelDescs) :
          LET tag == actualEntryPoints[i].slangStage
              stage == kernelDescs[i].stage
          IN  /\ tag \in C10_Table => <<tag, stage>> \in C10_SameMeaning
              /\ stage = "Unknown" <=> tag \notin C10_Table
              /\ tag \notin C10_Table => ~slangAssertEnabled
    /\ \A i \in 1..Len(kernelDescs) : \A j \in 1..Len(kernelDescs) :
          (/\ actualEntryPoints[i].slangStage \in C10_Table
           /\ actualEntryPoints[j].slangStage \in C10_Table
           /\ kernelDescs[i].stage = kernelDescs[j].stage)
            => actualEntryPoints[i].slangStage = actualEntryPoints[j].slangStage
    /\ pc = "aborted" =>
          /\ slangAssertEnabled
          /\ actualEntryPoints[ee + 1].slangStage \notin C10_Table
    /\ (slangAssertEnabled /\ pc = "idle") =>
          \A i \in 1..Len(actualEntryPoints) :
              actualEntryPoints[i].slangStage \in C10_Table

\* a release build has packaged a tag outside the table and one inside it
C10_Witness ==
    /\ Len(kernelDescs) = 2
    /\ actualEntryPoints[1].slangStage = "SLANG_STAGE_OUT_OF_ENUM"
    /\ kernelDescs[1].stage = "Unknown"
    /\ actualEntryPoints[2].slangStage = "SLANG_STAGE_FRAGMENT"
    /\ kernelDescs[2].stage = "Fragment"

====
